---- MODULE Spec2Model ----
(***************************************************************************)
(* Model of warg/kw_passing.py: the keyword-passing signature decorators   *)
(* passes_kws_to and super_init_pass_on_kws, and the merge they share,     *)
(* eval_sig_kw_params.                                                     *)
(*                                                                         *)
(* Parameter objects live in a heap (a sequence of records, addressed by   *)
(* position) because to_keyword_only assigns to the _kind field of the     *)
(* object it is handed, and inspect.signature hands out the very           *)
(* Signature stored in __signature__ once a callable carries one.          *)
(***************************************************************************)
EXTENDS Integers, Sequences, FiniteSets, TLC

VARIABLES
    heap,       \* Seq of Parameter objects [name, kind, default]; id = index
    installed,  \* function -> [set, params]: its __signature__ attribute
    nops,       \* number of decorations performed so far
    last        \* the decoration that has just run: its inputs, the merges it
                \* made, its outcome and return value; op = "none" between
                \* decorations

vars == <<heap, installed, nops, last>>

----------------------------------------------------------------------------
(* Bounds *)

MaxOps == 2          \* decorations per behaviour
MaxReceivers == 2    \* length of *receiver_funcs

----------------------------------------------------------------------------
(* inspect.Parameter, inspect._ParameterKind *)

POSITIONAL_ONLY == "POSITIONAL_ONLY"
POSITIONAL_OR_KEYWORD == "POSITIONAL_OR_KEYWORD"
VAR_POSITIONAL == "VAR_POSITIONAL"
KEYWORD_ONLY == "KEYWORD_ONLY"
VAR_KEYWORD == "VAR_KEYWORD"

\* the integer value of each _ParameterKind member, used by Signature's
\* ordering check
KindRank(k) ==
    CASE k = POSITIONAL_ONLY -> 0
      [] k = POSITIONAL_OR_KEYWORD -> 1
      [] k = VAR_POSITIONAL -> 2
      [] k = KEYWORD_ONLY -> 3
      [] k = VAR_KEYWORD -> 4

\* inspect.Parameter.empty
empty == "empty"

\* None as a dict key or an argument, and None as an object reference
None == "None"
NoneObj == 0

P(n, k, d) == [name |-> n, kind |-> k, default |-> d]

----------------------------------------------------------------------------
(* The callables and classes of the universe *)

\* declared parameter lists, as inspect.signature derives them from the
\* code object of a callable that carries no __signature__
decl ==
    [fn \in {"f", "g", "h", "p", "sum", "Base.__init__", "Sub.__init__",
             "object.__init__"} |->
       CASE fn = "f" -> <<P("a", POSITIONAL_OR_KEYWORD, empty),
                          P("args", VAR_POSITIONAL, empty),
                          P("kwargs", VAR_KEYWORD, empty)>>
         [] fn = "g" -> <<P("a", POSITIONAL_OR_KEYWORD, empty),
                          P("b", POSITIONAL_OR_KEYWORD, "1"),
                          P("c", POSITIONAL_OR_KEYWORD, "2")>>
         [] fn = "h" -> <<P("c", POSITIONAL_OR_KEYWORD, "3"),
                          P("d", KEYWORD_ONLY, "4"),
                          P("kwargs", KEYWORD_ONLY, "7"),
                          P("kw", VAR_KEYWORD, empty)>>
         [] fn = "p" -> <<P("e", POSITIONAL_ONLY, "5")>>
         [] fn = "sum" -> <<P("iterable", POSITIONAL_ONLY, empty),
                            P("start", POSITIONAL_OR_KEYWORD, "0")>>
         [] fn = "Base.__init__" -> <<P("self", POSITIONAL_OR_KEYWORD, empty),
                                      P("x", POSITIONAL_OR_KEYWORD, empty),
                                      P("y", POSITIONAL_OR_KEYWORD, "1")>>
         [] fn = "Sub.__init__" -> <<P("self", POSITIONAL_OR_KEYWORD, empty),
                                     P("x", POSITIONAL_OR_KEYWORD, empty),
                                     P("z", POSITIONAL_OR_KEYWORD, "2"),
                                     P("kwargs", VAR_KEYWORD, empty)>>
         [] fn = "object.__init__" -> <<P("self", POSITIONAL_ONLY, empty),
                                        P("args", VAR_POSITIONAL, empty),
                                        P("kwargs", VAR_KEYWORD, empty)>>]

Funcs == DOMAIN decl

\* isinstance(fn, types.BuiltinFunctionType) for a callable of the universe
builtin == [fn \in Funcs |-> fn = "sum"]

\* callables that accept a new attribute; a slot wrapper such as
\* object.__init__ does not
settable == [fn \in Funcs |-> fn \notin {"sum", "object.__init__"}]

Classes == {"object", "Base", "Sub", "Bare"}

\* inspect.getmro(cls)
getmro ==
    [c \in Classes |->
       CASE c = "object" -> <<"object">>
         [] c = "Base" -> <<"Base", "object">>
         [] c = "Sub" -> <<"Sub", "Base", "object">>
         [] c = "Bare" -> <<"Bare", "Base", "object">>]

\* the __init__ a class body defines itself ("" when it defines none)
ownInit ==
    [c \in Classes |->
       CASE c = "object" -> "object.__init__"
         [] c = "Base" -> "Base.__init__"
         [] c = "Sub" -> "Sub.__init__"
         [] c = "Bare" -> ""]

RECURSIVE LookupInit(_, _)
LookupInit(mro, i) ==
    IF ownInit[mro[i]] # "" THEN ownInit[mro[i]] ELSE LookupInit(mro, i + 1)

\* the attribute access cls.__init__: first definition along the MRO
InitOf(c) == LookupInit(getmro[c], 1)

\* a fixed enumeration of the callables, used to number live objects
FuncOrder == <<"f", "g", "h", "p", "sum", "Base.__init__", "Sub.__init__",
               "object.__init__">>

----------------------------------------------------------------------------
(* dict, as an insertion-ordered sequence of [key, val] entries *)

Keys(d) == {d[i].key : i \in DOMAIN d}

DictGet(d, k) == d[CHOOSE i \in DOMAIN d : d[i].key = k].val

DictPop(d, k) == SelectSeq(d, LAMBDA e : e.key # k)

\* d[k] = v: an existing key keeps its position
DictSet(d, k, v) ==
    IF k \in Keys(d)
    THEN [i \in DOMAIN d |-> IF d[i].key = k THEN [key |-> k, val |-> v] ELSE d[i]]
    ELSE Append(d, [key |-> k, val |-> v])

RECURSIVE DictUpdate(_, _)
DictUpdate(d, e) ==
    IF e = <<>> THEN d
    ELSE DictUpdate(DictSet(d, Head(e).key, Head(e).val), Tail(e))

----------------------------------------------------------------------------
(* inspect.signature and Signature.replace, as the decorators use them *)

\* inspect.signature(fn): the Signature stored in fn.__signature__ itself
\* when there is one (its Parameter objects are shared with every holder),
\* otherwise fresh Parameter objects built from the declaration
InspectSignature(fn, hp, inst) ==
    IF inst[fn].set
    THEN [heap |-> hp, sig |-> inst[fn].params]
    ELSE [heap |-> hp \o decl[fn],
          sig |-> [i \in 1..Len(decl[fn]) |-> Len(hp) + i]]

RECURSIVE ValidateParameters(_, _, _, _, _)
ValidateParameters(values, hp, top_kind, seen_default, seen) ==
    IF values = <<>> THEN "ok"
    ELSE IF Head(values) = NoneObj THEN "AttributeError"
    ELSE LET param == hp[Head(values)]
             kind == param.kind
         IN  IF KindRank(kind) < KindRank(top_kind) THEN "ValueError"
             ELSE IF /\ kind \in {POSITIONAL_ONLY, POSITIONAL_OR_KEYWORD}
                     /\ param.default = empty
                     /\ seen_default
                  THEN "ValueError"
             ELSE IF param.name \in seen THEN "ValueError"
             ELSE ValidateParameters(
                      Tail(values), hp, kind,
                      seen_default \/ (/\ kind \in {POSITIONAL_ONLY, POSITIONAL_OR_KEYWORD}
                                       /\ param.default # empty),
                      seen \cup {param.name})

\* sig.replace(parameters=params.values()): a new Signature over the same
\* Parameter objects, or the exception Signature's validation raises
SignatureReplace(params, hp) ==
    LET values == [i \in DOMAIN params |-> params[i].val]
    IN  [outcome |-> ValidateParameters(values, hp, POSITIONAL_ONLY, FALSE, {}),
         sig |-> values]

\* what inspect.signature(fn) shows: name, kind and default of each parameter
Advertised(fn, hp, inst) ==
    IF inst[fn].set
    THEN [i \in DOMAIN inst[fn].params |-> hp[inst[fn].params[i]]]
    ELSE decl[fn]

----------------------------------------------------------------------------
(* to_keyword_only, eval_sig_kw_params *)

\* assigns val._kind in place; the value returned is the same object
to_keyword_only(hp, val) ==
    IF hp[val].kind = POSITIONAL_OR_KEYWORD
    THEN [hp EXCEPT ![val].kind = KEYWORD_ONLY]
    ELSE hp

RECURSIVE ConvertAll(_, _)
ConvertAll(hp, vals) ==
    IF vals = <<>> THEN hp
    ELSE ConvertAll(to_keyword_only(hp, Head(vals)), Tail(vals))

\* the key left in var_kw_key by the loop of lines 32-34
VarKwKey(passing_params, hp) ==
    LET idx == {i \in DOMAIN passing_params :
                    hp[passing_params[i].val].kind = VAR_KEYWORD}
    IN  IF idx = {} THEN None
        ELSE passing_params[CHOOSE i \in idx : \A j \in idx : j <= i].key

\* Selected without the test "key not in passing_params"
Selected_NoNameTest(receiver_params, passing_params, hp) ==
    SelectSeq(receiver_params, LAMBDA val : hp[val].default # empty)

\* Selected without the test on the default
Selected_NoDefaultTest(receiver_params, passing_params, hp) ==
    SelectSeq(receiver_params,
              LAMBDA val : hp[val].name \notin Keys(passing_params))

\* the receiver parameters the comprehension of lines 39-43 selects
Selected(receiver_params, passing_params, hp) ==
    SelectSeq(receiver_params,
              LAMBDA val : /\ hp[val].default # empty
                           /\ hp[val].name \notin Keys(passing_params))

\* MergeSelected putting the variadic-keyword entry back whatever the flag says
MergeSelected_AlwaysKeeps(params1, var_kw_key, var_kw, receiver_params, sel, keep_from_var_kw, hp0, hp1) ==
    LET to_params == [i \in DOMAIN sel |-> [key |-> hp1[sel[i]].name, val |-> sel[i]]]
        params2 == DictUpdate(params1, to_params)
        no_var_kw == \A i \in DOMAIN receiver_params :
                         hp1[receiver_params[i]].kind # VAR_KEYWORD
    IN  [heap |-> hp1,
         params |-> DictSet(params2, var_kw_key, var_kw),
         warned |-> IF keep_from_var_kw /\ no_var_kw THEN 1 ELSE 0,
         receiver_before |-> [i \in DOMAIN receiver_params |-> hp0[receiver_params[i]]]]

\* lines 45-63: update passing_params with the converted selection, put the
\* variadic-keyword entry back when asked to, warn when the receiver has none
MergeSelected(params1, var_kw_key, var_kw, receiver_params, sel, keep_from_var_kw, hp0, hp1) ==
    LET to_params == [i \in DOMAIN sel |-> [key |-> hp1[sel[i]].name, val |-> sel[i]]]
        params2 == DictUpdate(params1, to_params)
        no_var_kw == \A i \in DOMAIN receiver_params :
                         hp1[receiver_params[i]].kind # VAR_KEYWORD
    IN  [heap |-> hp1,
         params |-> IF keep_from_var_kw THEN DictSet(params2, var_kw_key, var_kw)
                    ELSE params2,
         warned |-> IF keep_from_var_kw /\ no_var_kw THEN 1 ELSE 0,
         receiver_before |-> [i \in DOMAIN receiver_params |-> hp0[receiver_params[i]]]]

\* lines 39-43: select the receiver parameters and convert each of them
MergePopped(params1, var_kw_key, var_kw, receiver_params, sel, keep_from_var_kw, hp0) ==
    MergeSelected(params1, var_kw_key, var_kw, receiver_params, sel, keep_from_var_kw,
                  hp0, ConvertAll(hp0, sel))

\* lines 30-37: find the passing callable's variadic-keyword entry and pop it
MergeInto(params0, var_kw_key, receiver_params, keep_from_var_kw, hp0) ==
    LET popped == var_kw_key \in Keys(params0)
        var_kw == IF popped THEN DictGet(params0, var_kw_key) ELSE NoneObj
        params1 == IF popped THEN DictPop(params0, var_kw_key) ELSE params0
    IN  MergePopped(params1, var_kw_key, var_kw, receiver_params,
                    Selected(receiver_params, params1, hp0), keep_from_var_kw, hp0)

\* lines 27-28: the two parameter mappings
MergeWith(passing_sig, r, keep_from_var_kw) ==
    LET params0 == [i \in DOMAIN passing_sig |->
                        [key |-> r.heap[passing_sig[i]].name, val |-> passing_sig[i]]]
    IN  MergeInto(params0, VarKwKey(params0, r.heap), r.sig, keep_from_var_kw, r.heap)

eval_sig_kw_params(passing_sig, receiver_func, keep_from_var_kw, hp, inst) ==
    MergeWith(passing_sig, InspectSignature(receiver_func, hp, inst), keep_from_var_kw)

----------------------------------------------------------------------------
(* Snapshots kept in the record of the last decoration *)

ParamVals(sig, hp) == [i \in DOMAIN sig |-> hp[sig[i]]]

\* a parameter mapping by value: key, whether the value is None, and the
\* Parameter's fields otherwise
MappingVals(params, hp) ==
    [i \in DOMAIN params |->
        [key |-> params[i].key,
         none |-> params[i].val = NoneObj,
         param |-> IF params[i].val = NoneObj THEN P(None, None, None)
                   ELSE hp[params[i].val]]]

AllAdvertised(hp, inst) == [fn \in Funcs |-> Advertised(fn, hp, inst)]

----------------------------------------------------------------------------
(* Object lifetime: Parameter objects no __signature__ refers to are
   unreachable; the live ones are numbered in a fixed order *)

RECURSIVE LiveFrom(_, _, _)
LiveFrom(inst, k, acc) ==
    IF k > Len(FuncOrder) THEN acc
    ELSE LET fn == FuncOrder[k]
             new == IF inst[fn].set
                    THEN SelectSeq(inst[fn].params,
                                   LAMBDA id : \A j \in DOMAIN acc : acc[j] # id)
                    ELSE <<>>
         IN  LiveFrom(inst, k + 1, acc \o new)

Compact(hp, inst) ==
    LET live == LiveFrom(inst, 1, <<>>)
        newId(id) == CHOOSE j \in DOMAIN live : live[j] = id
    IN  [heap |-> [j \in DOMAIN live |-> hp[live[j]]],
         installed |-> [fn \in Funcs |->
                          [set |-> inst[fn].set,
                           params |-> [i \in DOMAIN inst[fn].params |->
                                          newId(inst[fn].params[i])]]]]

----------------------------------------------------------------------------
(* passes_kws_to *)

\* isinstance(v, types.BuiltinFunctionType), v a tuple or a callable
IsBuiltinFunctionType(v) == v.type = "function" /\ builtin[v.fn]

\* the value bound to *receiver_funcs
TupleOf(items) == [type |-> "tuple", items |-> items]

\* what one merge did, by value
StepOf(passing_sig, receiver_func, hp, m) ==
    [passing |-> ParamVals(passing_sig, hp),
     receiver |-> receiver_func,
     receiver_before |-> m.receiver_before,
     out |-> MappingVals(m.params, m.heap)]

\* the loop of lines 82-84: merge each receiver in turn into passing_sig
RECURSIVE MergeLoop(_, _, _, _, _, _, _)
\* MergeStep dropping the Signature that replace returns
MergeStep_NoThreading(passing_sig, receiver_funcs, keep_from_var_kw, inst, warned, merges, m, rep) ==
    IF rep.outcome # "ok"
    THEN [outcome |-> rep.outcome, sig |-> passing_sig, heap |-> m.heap,
          warned |-> warned, merges |-> merges]
    ELSE MergeLoop(passing_sig, Tail(receiver_funcs), keep_from_var_kw,
                   m.heap, inst, warned, merges)

MergeStep(passing_sig, receiver_funcs, keep_from_var_kw, inst, warned, merges, m, rep) ==
    IF rep.outcome # "ok"
    THEN [outcome |-> rep.outcome, sig |-> passing_sig, heap |-> m.heap,
          warned |-> warned, merges |-> merges]
    ELSE MergeLoop(rep.sig, Tail(receiver_funcs), keep_from_var_kw,
                   m.heap, inst, warned, merges)

MergeNext(passing_sig, receiver_funcs, keep_from_var_kw, hp, inst, warned, merges, m) ==
    MergeStep(passing_sig, receiver_funcs, keep_from_var_kw, inst,
              warned + m.warned,
              Append(merges, StepOf(passing_sig, Head(receiver_funcs), hp, m)),
              m, SignatureReplace(m.params, m.heap))

MergeLoop(passing_sig, receiver_funcs, keep_from_var_kw, hp, inst, warned, merges) ==
    IF receiver_funcs = <<>>
    THEN [outcome |-> "ok", sig |-> passing_sig, heap |-> hp,
          warned |-> warned, merges |-> merges]
    ELSE MergeNext(passing_sig, receiver_funcs, keep_from_var_kw, hp, inst, warned,
                   merges,
                   eval_sig_kw_params(passing_sig, Head(receiver_funcs),
                                      keep_from_var_kw, hp, inst))

\* fn.__signature__ = sig
SetSignature(fn, sig, inst) ==
    IF settable[fn]
    THEN [outcome |-> "ok", installed |-> [inst EXCEPT ![fn] = [set |-> TRUE, params |-> sig]]]
    ELSE [outcome |-> "AttributeError", installed |-> inst]

\* lines 85-86 (and 110-111): install the signature, return the callable
Install(target, returned, inst, r) ==
    LET set == SetSignature(target, r.sig, inst)
    IN  IF r.outcome # "ok"
        THEN [outcome |-> r.outcome, heap |-> r.heap, installed |-> inst,
              warned |-> r.warned, merges |-> r.merges, returned |-> None]
        ELSE [outcome |-> set.outcome, heap |-> r.heap, installed |-> set.installed,
              warned |-> r.warned, merges |-> r.merges,
              returned |-> IF set.outcome = "ok" THEN returned ELSE None]

PassingLoop(passing_func, receiver_funcs, keep_from_var_kw, inst, s) ==
    Install(passing_func, passing_func, inst,
            MergeLoop(s.sig, receiver_funcs, keep_from_var_kw, s.heap, inst, 0, <<>>))

\* the decorator returned by passes_kws_to, applied to passing_func
passes_kws_to_func(passing_func, receiver_funcs, keep_from_var_kw, hp, inst) ==
    PassingLoop(passing_func, receiver_funcs, keep_from_var_kw, inst,
                InspectSignature(passing_func, hp, inst))

passes_kws_to(passing_func, receiver_funcs, keep_from_var_kw, hp, inst) ==
    IF IsBuiltinFunctionType(TupleOf(receiver_funcs))
    THEN [outcome |-> "AssertionError", heap |-> hp, installed |-> inst,
          warned |-> 0, merges |-> <<>>, returned |-> None]
    ELSE passes_kws_to_func(passing_func, receiver_funcs, keep_from_var_kw, hp, inst)

----------------------------------------------------------------------------
(* super_init_pass_on_kws *)

\* line 101-104: the receiver initializer
ToFunc(func, super_base) ==
    IF super_base # None THEN InitOf(super_base)
    ELSE InitOf(getmro[func][1])

\* lines 108-111: one merge of to_func into from_func's signature
InitMerge(func, to_func, from_func, keep_from_var_kw, inst, s) ==
    Install(from_func, func, inst,
            MergeLoop(s.sig, <<to_func>>, keep_from_var_kw, s.heap, inst, 0, <<>>))

super_init_pass_on_kws(func, super_base, keep_from_var_kw, hp, inst) ==
    InitMerge(func, ToFunc(func, super_base), InitOf(func), keep_from_var_kw, inst,
              InspectSignature(InitOf(func), hp, inst))

----------------------------------------------------------------------------
(* The state machine: decorations applied one after another *)

\* inputs
PassingFuncs == {"f", "g"}
ReceiverFuncs == {"g", "h", "p", "sum"}
\* receiver lists of up to MaxReceivers callables, none listed twice
ReceiverTuples ==
    {t \in UNION {[1..n -> ReceiverFuncs] : n \in 0..MaxReceivers} :
        \A i, j \in DOMAIN t : i # j => t[i] # t[j]}
SuperBases == {None, "Base", "Sub"}

NoLast ==
    [op |-> "none", passing |-> None, receivers |-> <<>>, keep |-> FALSE,
     cls |-> None, super_base |-> None, outcome |-> "ok", warned |-> 0,
     merges |-> <<>>, returned |-> None,
     pre |-> AllAdvertised(<<>>, [fn \in Funcs |-> [set |-> FALSE, params |-> <<>>]])]

Init ==
    /\ heap = <<>>
    /\ installed = [fn \in Funcs |-> [set |-> FALSE, params |-> <<>>]]
    /\ nops = 0
    /\ last = NoLast

\* the state after a decoration that ended as r says
Record(op, passing, receivers, keep, cls, sb, r, c) ==
    /\ heap' = c.heap
    /\ installed' = c.installed
    /\ last' = [op |-> op, passing |-> passing, receivers |-> receivers,
                keep |-> keep, cls |-> cls, super_base |-> sb,
                outcome |-> r.outcome, warned |-> r.warned,
                merges |-> r.merges, returned |-> r.returned,
                pre |-> AllAdvertised(heap, installed)]
    /\ nops' = nops + 1

Commit(op, passing, receivers, keep, cls, sb, r) ==
    Record(op, passing, receivers, keep, cls, sb, r, Compact(r.heap, r.installed))

\* @passes_kws_to(*receiver_funcs, keep_from_var_kw=...) on passing_func
PassesKwsTo(passing_func, receiver_funcs, keep_from_var_kw) ==
    /\ nops < MaxOps
    /\ last.op = "none"
    /\ Commit("passes_kws_to", passing_func, receiver_funcs, keep_from_var_kw,
              None, None,
              passes_kws_to(passing_func, receiver_funcs, keep_from_var_kw,
                            heap, installed))

\* @super_init_pass_on_kws(super_base=..., keep_from_var_kw=...) on class func
SuperInitPassOnKws(func, super_base, keep_from_var_kw) ==
    /\ nops < MaxOps
    /\ last.op = "none"
    /\ Commit("super_init_pass_on_kws", InitOf(func), <<ToFunc(func, super_base)>>,
              keep_from_var_kw, func, super_base,
              super_init_pass_on_kws(func, super_base, keep_from_var_kw,
                                     heap, installed))

\* the decorator call is over: its arguments, locals and return value are
\* dropped, and the module body goes on to its next statement
Continue ==
    /\ last.op # "none"
    /\ last' = NoLast
    /\ UNCHANGED <<heap, installed, nops>>

Next ==
    \/ \E pf \in PassingFuncs, rf \in ReceiverTuples, k \in BOOLEAN :
           PassesKwsTo(pf, rf, k)
    \/ \E c \in Classes, sb \in SuperBases, k \in BOOLEAN :
           SuperInitPassOnKws(c, sb, k)
    \/ Continue

Spec == Init /\ [][Next]_vars

\* what inspect.signature shows for each callable in the current state
Adv == AllAdvertised(heap, installed)

----------------------------------------------------------------------------
(* Vocabulary of the properties *)

Names(sig) == {sig[i].name : i \in DOMAIN sig}

DefaultedNames(sig) == {sig[i].name : i \in {j \in DOMAIN sig : sig[j].default # empty}}

HasVarKw(sig) == \E i \in DOMAIN sig : sig[i].kind = VAR_KEYWORD

ParamOf(sig, n) == sig[CHOOSE i \in DOMAIN sig : sig[i].name = n]

Count(sig, n) == Cardinality({i \in DOMAIN sig : sig[i].name = n})

\* the callable whose signature the last decoration was to rewrite
Target == last.passing

IsPasses == last.op = "passes_kws_to"
IsSuperInit == last.op = "super_init_pass_on_kws"

----------------------------------------------------------------------------
(* C1: with no super_base, every defaulted parameter of the first ancestor's
   __init__ whose name is absent from the decorated class's __init__ appears,
   keyword-only, in the advertised signature of the decorated class's
   __init__. *)
C1_FirstAncestorMerged ==
    (IsSuperInit /\ last.super_base = None /\ Len(getmro[last.cls]) > 1) =>
        LET ancestor == last.pre[InitOf(getmro[last.cls][2])]
            own == last.pre[InitOf(last.cls)]
        IN  \A i \in DOMAIN ancestor :
                (ancestor[i].default # empty /\ ancestor[i].name \notin Names(own)) =>
                    \E j \in DOMAIN Adv[InitOf(last.cls)] :
                        Adv[InitOf(last.cls)][j] =
                            P(ancestor[i].name, KEYWORD_ONLY, ancestor[i].default)

(* C2 as stated: passes_kws_to with the default options (keep_from_var_kw
   false) keeps the passing callable's variadic-keyword parameter as the last
   parameter of the advertised signature. *)
C2_DefaultKeepsVarKw ==
    (IsPasses /\ ~last.keep /\ last.outcome = "ok" /\ HasVarKw(last.pre[Target])) =>
        /\ Adv[Target] # <<>>
        /\ Adv[Target][Len(Adv[Target])].kind = VAR_KEYWORD

(* C2 as amended: when a passes_kws_to decoration with at least one receiver
   completes on a passing callable that had a variadic-keyword parameter, that
   parameter is the last one of the advertised signature (and the only
   variadic-keyword one) if keep_from_var_kw is true, and the advertised
   signature has no variadic-keyword parameter if keep_from_var_kw is false
   (the default). For f(a, *args, **kwargs) and g(a, b=1, c=2) the results
   are (a, *args, b=1, c=2, **kwargs) and (a, *args, b=1, c=2), b and c
   keyword-only. *)
C2_VarKwKeptOnlyWhenAsked ==
    /\ (IsPasses /\ last.outcome = "ok" /\ last.receivers # <<>>
            /\ HasVarKw(last.pre[Target])) =>
          LET before == last.pre[Target]
              vk == before[CHOOSE i \in DOMAIN before : before[i].kind = VAR_KEYWORD]
              after == Adv[Target]
          IN  IF last.keep
              THEN /\ after # <<>>
                   /\ after[Len(after)] = vk
                   /\ \A i \in DOMAIN after : after[i].kind = VAR_KEYWORD => i = Len(after)
              ELSE \A i \in DOMAIN after : after[i].kind # VAR_KEYWORD
    /\ (IsPasses /\ Target = "f" /\ last.receivers = <<"g">>
            /\ last.pre["f"] = decl["f"] /\ last.pre["g"] = decl["g"]) =>
          /\ last.outcome = "ok"
          /\ Adv["f"] = <<P("a", POSITIONAL_OR_KEYWORD, empty),
                          P("args", VAR_POSITIONAL, empty),
                          P("b", KEYWORD_ONLY, "1"),
                          P("c", KEYWORD_ONLY, "2")>>
                        \o (IF last.keep THEN <<P("kwargs", VAR_KEYWORD, empty)>>
                            ELSE <<>>)

C2_Witness ==
    /\ IsPasses /\ Target = "f" /\ last.receivers = <<"g">> /\ last.keep
    /\ last.outcome = "ok"
    /\ Len(Adv["f"]) = 5
    /\ Adv["f"][5] = P("kwargs", VAR_KEYWORD, empty)

(* C3: a passes_kws_to call whose receiver list contains a builtin function
   fails its assertion: no decorator is produced and no advertised signature
   changes. *)
C3_BuiltinReceiverRejected ==
    (IsPasses /\ \E i \in DOMAIN last.receivers : builtin[last.receivers[i]]) =>
        /\ last.outcome = "AssertionError"
        /\ last.returned = None
        /\ Adv = last.pre

(* C4: every receiver parameter a merge adds to the passing callable's
   parameter mapping is keyword-only in the output, whatever its kind in the
   receiver. *)
C4_MergedAreKeywordOnly ==
    \A s \in DOMAIN last.merges :
        LET step == last.merges[s]
        IN  \A i \in DOMAIN step.out :
                (~step.out[i].none /\ step.out[i].key \notin Names(step.passing)) =>
                    step.out[i].param.kind = KEYWORD_ONLY

(* C5 as stated: for every receiver parameter whose name is the name of a
   parameter of the passing callable, of any kind, the merged mapping holds
   the passing callable's own parameter under that name. *)
C5_PassingNamesWin ==
    \A s \in DOMAIN last.merges :
        LET step == last.merges[s]
        IN  \A i \in DOMAIN step.receiver_before :
                step.receiver_before[i].name \in Names(step.passing) =>
                    \E j \in DOMAIN step.out :
                        /\ step.out[j].key = step.receiver_before[i].name
                        /\ ~step.out[j].none
                        /\ step.out[j].param =
                               ParamOf(step.passing, step.receiver_before[i].name)

(* C5 as amended: for every receiver parameter whose name is the name of a
   parameter of the passing callable other than its variadic-keyword
   parameter, the merged mapping holds, under that name and once, the passing
   callable's own parameter (same kind and default), for either value of
   keep_from_var_kw. *)
C5_NonVariadicPassingNamesWin ==
    \A s \in DOMAIN last.merges :
        LET step == last.merges[s]
        IN  \A i \in DOMAIN step.receiver_before :
              \A q \in DOMAIN step.passing :
                (/\ step.passing[q].name = step.receiver_before[i].name
                 /\ step.passing[q].kind # VAR_KEYWORD) =>
                    /\ Cardinality({j \in DOMAIN step.out :
                                       step.out[j].key = step.passing[q].name}) = 1
                    /\ \E j \in DOMAIN step.out :
                          /\ step.out[j].key = step.passing[q].name
                          /\ ~step.out[j].none
                          /\ step.out[j].param = step.passing[q]

C5_Witness ==
    /\ IsPasses /\ Target = "g" /\ last.receivers = <<"h">>
    /\ last.pre["g"] = decl["g"] /\ last.pre["h"] = decl["h"]
    /\ last.outcome = "ok"
    /\ ParamOf(Adv["g"], "c") = P("c", POSITIONAL_OR_KEYWORD, "2")

(* C6 as stated: when the passing signature and the receiver have no
   parameter name in common, the merged mapping has as many entries as the
   passing signature has parameters plus the receiver has defaulted
   parameters. *)
C6_CountIsSum ==
    \A s \in DOMAIN last.merges :
        LET step == last.merges[s]
        IN  Names(step.passing) \cap Names(step.receiver_before) = {} =>
                Len(step.out) = Len(step.passing)
                                + Cardinality(DefaultedNames(step.receiver_before))

(* C6 as amended: with keep_from_var_kw false (the default), when the passing
   signature and the receiver have no parameter name in common, the merged
   mapping has as many entries as the passing signature has parameters other
   than its variadic-keyword parameter, plus the receiver has defaulted
   parameters. *)
C6_CountWithoutVarKw ==
    \A s \in DOMAIN last.merges :
        LET step == last.merges[s]
        IN  (~last.keep /\ Names(step.passing) \cap Names(step.receiver_before) = {}) =>
                Len(step.out) =
                    Cardinality({i \in DOMAIN step.passing :
                                    step.passing[i].kind # VAR_KEYWORD})
                    + Cardinality(DefaultedNames(step.receiver_before))

C6_Witness ==
    /\ IsPasses /\ Target = "f" /\ last.receivers = <<"sum">> /\ ~last.keep
    /\ last.pre["f"] = decl["f"]
    /\ Len(last.merges) = 1
    /\ Len(last.merges[1].out) = 3

(* C7: a decoration with one receiver that has no variadic-keyword parameter
   and keep_from_var_kw true succeeds (the passing callable, or the class, is
   returned and the merged signature is installed) and emits exactly one
   warning. *)
C7_WarnsOnceAndSucceeds ==
    (/\ last.op # "none" /\ last.keep /\ Len(last.receivers) = 1
     /\ ~HasVarKw(last.pre[last.receivers[1]])) =>
        /\ last.outcome = "ok"
        /\ last.returned = (IF IsSuperInit THEN last.cls ELSE Target)
        /\ last.warned = 1

(* C8: a decoration leaves the advertised signature of every receiver that is
   not the callable being decorated as it was. *)
C8_ReceiversUnchanged ==
    \A i \in DOMAIN last.receivers :
        last.receivers[i] # Target =>
            Adv[last.receivers[i]] = last.pre[last.receivers[i]]

(* C9: after passes_kws_to has merged receiver A and then receiver B, the
   advertised signature holds every defaulted parameter of B whose name is
   neither in the passing callable nor among the parameters A contributed,
   and under every name that A contributed and B also has a default for, it
   holds A's default, once. *)
C9_ChainThreadsMapping ==
    (IsPasses /\ last.outcome = "ok" /\ Len(last.receivers) >= 2) =>
        LET passing == last.pre[Target]
            A == last.pre[last.receivers[1]]
            B == last.pre[last.receivers[2]]
            fromA == DefaultedNames(A) \ Names(passing)
            after == Adv[Target]
        IN  /\ \A i \in DOMAIN B :
                  (/\ B[i].default # empty
                   /\ B[i].name \notin Names(passing) \cup fromA) =>
                      \E j \in DOMAIN after :
                          /\ after[j].name = B[i].name
                          /\ after[j].default = B[i].default
            /\ \A n \in fromA \cap DefaultedNames(B) :
                  /\ Count(after, n) = 1
                  /\ ParamOf(after, n).default = ParamOf(A, n).default

C9_Witness ==
    /\ IsPasses /\ Target = "f" /\ last.receivers = <<"g", "h">>
    /\ last.outcome = "ok"
    /\ ParamOf(last.pre["h"], "c").default = "3"
    /\ ParamOf(Adv["f"], "c").default = "2"
    /\ "d" \in Names(Adv["f"])

\* the classes that have C in their MRO: C and its subclasses
SubclassesOf(C) == {c \in Classes : \E i \in DOMAIN getmro[c] : getmro[c][i] = C}

(* C10: once super_init_pass_on_kws has decorated class C, the object
   returned is C and the advertised __init__ signature of every class that is
   neither C nor a subclass of C (C's bases and their other subclasses among
   them) is what it was. *)
C10_OnlyOwnInitChanges ==
    (IsSuperInit /\ last.outcome = "ok") =>
        /\ last.returned = last.cls
        /\ \A c \in Classes \ SubclassesOf(last.cls) :
               Adv[InitOf(c)] = last.pre[InitOf(c)]

====
